---- MODULE Spec2Model ----
(***************************************************************************)
(* Model of the run-analysis-suite dashboard.                              *)
(*                                                                         *)
(*   Index            isAuthenticated, userRole, handleLogin, handleLogout *)
(*   Dashboard        uploadedVideos, handleVideoUpload, the statistics    *)
(*   VideoUploadCard  isDragging, handleFileChange, handleDrop,            *)
(*                    handleDragOver, handleDragLeave                      *)
(*   PerformanceChart the chart of one field of the series                 *)
(*                                                                         *)
(* Every handler is a React event handler: it runs to completion and React *)
(* commits the state updates it made before the next event is dispatched,  *)
(* so one action is one handler together with the render that follows it.  *)
(***************************************************************************)
EXTENDS Integers, Sequences, FiniteSets, TLC

VARIABLES
    isAuthenticated,  \* Index: useState(false)
    userRole,         \* Index: useState('runner')
    uploadedVideos,   \* Dashboard: useState<Record<string, boolean>>({})
    isDragging,       \* VideoUploadCard: useState(false), one per card
    lastEvent,        \* history: the handler that ran last, and its input
    received,         \* history: keys onUpload was called for since the Dashboard mounted
    seenUploaded,     \* history: keys whose card has ever shown "Video Uploaded"
    loginRole,        \* history: the role passed to the most recent handleLogin
    data,             \* the series the statistics and the charts are made from
    stats,            \* Dashboard: the statistics, once rendered
    chart             \* PerformanceChart: the chart, once rendered

uiVars == <<isAuthenticated, userRole, uploadedVideos, isDragging,
            lastEvent, received, seenUploaded, loginRole>>

vars == <<isAuthenticated, userRole, uploadedVideos, isDragging,
          lastEvent, received, seenUploaded, loginRole, data, stats, chart>>

----------------------------------------------------------------------------
(* Strings the code inspects character by character are sequences of       *)
(* one-character strings.                                                  *)

VideoPrefix == <<"v", "i", "d", "e", "o", "/">>

\* String.prototype.startsWith
StartsWith(s, prefix) ==
    /\ Len(s) >= Len(prefix)
    /\ SubSeq(s, 1, Len(prefix)) = prefix

\* The MIME types of the files a user may select or drop.
VideoMp4  == <<"v", "i", "d", "e", "o", "/", "m", "p", "4">>
VideoBare == <<"v", "i", "d", "e", "o", "/">>
VideoWord == <<"v", "i", "d", "e", "o">>
TextPlain == <<"t", "e", "x", "t", "/", "p", "l", "a", "i", "n">>
NoType    == << >>

FileTypes == {VideoMp4, VideoBare, VideoWord, TextPlain, NoType}

\* A FileList: empty, or files of which the handlers read the first.
File(type) == [type |-> type]

FileLists == {<< >>} \cup {<<File(t)>> : t \in FileTypes}

----------------------------------------------------------------------------
(* JavaScript numbers.  A Number is an IEEE-754 binary64 value.  TLC's     *)
(* integers are 32 bits wide, so a significand is a sequence of limbs      *)
(* (digits in base Base), most significant first and without leading zero  *)
(* limbs.  The finite numbers of the model are the non-negative normal     *)
(* ones, sig * 2^exp with a significand of Precision bits (zero: the empty *)
(* significand); the other values are the two the code can produce from    *)
(* them, -Infinity and NaN.                                                *)

Precision == 53

Base == 2^13

RECURSIVE BitLen(_)
\* The number of bits of the natural number n.
BitLen(n) == IF n = 0 THEN 0 ELSE 1 + BitLen(n \div 2)

LimbWidth == BitLen(Base) - 1

Zeros(n) == [i \in 1..n |-> 0]

RECURSIVE Limbs(_)
\* The limbs of the natural number n.
Limbs(n) == IF n = 0 THEN << >> ELSE Append(Limbs(n \div Base), n % Base)

RECURSIVE Strip(_)
\* Without leading zero limbs.
Strip(a) == IF Len(a) > 0 /\ a[1] = 0 THEN Strip(Tail(a)) ELSE a

PadTo(a, n) == Zeros(n - Len(a)) \o a

\* The number of bits of a.
BigLen(a) == IF a = << >> THEN 0 ELSE LimbWidth * (Len(a) - 1) + BitLen(a[1])

RECURSIVE AddLoop(_, _, _, _, _)
AddLoop(a, b, i, carry, acc) ==
    IF i = 0
      THEN <<carry>> \o acc
      ELSE LET t == a[i] + b[i] + carry
           IN  AddLoop(a, b, i - 1, t \div Base, <<t % Base>> \o acc)

\* a + b
BigAdd(a, b) ==
    LET n == IF Len(a) > Len(b) THEN Len(a) ELSE Len(b)
    IN  Strip(AddLoop(PadTo(a, n), PadTo(b, n), n, 0, << >>))

RECURSIVE SubLoop(_, _, _, _, _)
SubLoop(a, b, i, borrow, acc) ==
    IF i = 0
      THEN acc
      ELSE LET t == a[i] - b[i] - borrow
           IN  SubLoop(a, b, i - 1, IF t < 0 THEN 1 ELSE 0,
                       <<IF t < 0 THEN t + Base ELSE t>> \o acc)

\* a - b, for a >= b
BigSub(a, b) == Strip(SubLoop(a, PadTo(b, Len(a)), Len(a), 0, << >>))

RECURSIVE MulLoop(_, _, _, _, _)
MulLoop(a, m, i, carry, acc) ==
    IF i = 0
      THEN Limbs(carry) \o acc
      ELSE LET t == a[i] * m + carry
           IN  MulLoop(a, m, i - 1, t \div Base, <<t % Base>> \o acc)

\* a * m, for a small m
MulSmall(a, m) == Strip(MulLoop(a, m, Len(a), 0, << >>))

RECURSIVE DivLoop(_, _, _, _, _)
DivLoop(a, d, i, rem, acc) ==
    IF i > Len(a)
      THEN [quot |-> Strip(acc), rem |-> rem]
      ELSE LET t == Base * rem + a[i]
           IN  DivLoop(a, d, i + 1, t % d, Append(acc, t \div d))

\* a divided by a small d: the quotient and the remainder
DivSmall(a, d) == DivLoop(a, d, 1, 0, << >>)

\* a * 2^s
ShiftLeft(a, s) ==
    IF a = << >> THEN << >>
    ELSE MulSmall(a, 2^(s % LimbWidth)) \o Zeros(s \div LimbWidth)

\* a divided by 2^s: the quotient, and whether there is a remainder
ShiftRight(a, s) ==
    LET w    == s \div LimbWidth
        high == IF w >= Len(a) THEN << >> ELSE SubSeq(a, 1, Len(a) - w)
        qr   == DivSmall(high, 2^(s % LimbWidth))
    IN  [quot |-> qr.quot,
         inexact |-> qr.rem # 0 \/ \E i \in 1..Len(a) : i > Len(a) - w /\ a[i] # 0]

RECURSIVE LessLoop(_, _, _)
LessLoop(a, b, i) ==
    IF i > Len(a) THEN FALSE
    ELSE IF a[i] # b[i] THEN a[i] < b[i]
    ELSE LessLoop(a, b, i + 1)

\* a < b
BigLess(a, b) ==
    IF Len(a) # Len(b) THEN Len(a) < Len(b) ELSE LessLoop(a, b, 1)

Finite(sig, exp) == [kind |-> "finite", sig |-> sig, exp |-> exp]

Zero == Finite(<< >>, 0)

NegInfinity == [kind |-> "-Infinity"]

PosInfinity == [kind |-> "Infinity"]

NaN == [kind |-> "NaN"]

IsFinite(x) == x.kind = "finite"

IsZero(x) == IsFinite(x) /\ x.sig = << >>

\* The binary64 nearest to n * 2^exp / d (ties to even), for a big n and a
\* small d >= 1: the quotient is taken with two bits more than the
\* significand holds, a round bit and one that is lost in the sticky flag.
RoundRatio(n, exp, d) ==
    IF n = << >> THEN Zero
    ELSE
      LET want == Precision + 2 + BitLen(d)
          s    == IF BigLen(n) >= want THEN 0 ELSE want - BigLen(n)
          qr   == DivSmall(ShiftLeft(n, s), d)
          drop == BigLen(qr.quot) - (Precision + 1)
          top  == ShiftRight(qr.quot, drop)
          kept == ShiftRight(top.quot, 1).quot
          half   == top.quot[Len(top.quot)] % 2 = 1
          sticky == qr.rem # 0 \/ top.inexact
          even   == kept[Len(kept)] % 2 = 0
          sig  == IF half /\ (sticky \/ ~even) THEN BigAdd(kept, <<1>>) ELSE kept
          e    == exp - s + drop + 1
      IN  IF BigLen(sig) > Precision
            THEN Finite(ShiftRight(sig, 1).quot, e + 1)
            ELSE Finite(sig, e)

RECURSIVE Pow10(_)
Pow10(k) == IF k = 0 THEN 1 ELSE 10 * Pow10(k - 1)

\* The numeric literal digits / 10^scale, as 0.08857 is Lit(8857, 5).
Lit(digits, scale) == RoundRatio(Limbs(digits), 0, Pow10(scale))

\* a + b
FAdd(a, b) ==
    IF IsZero(a) THEN b
    ELSE IF IsZero(b) THEN a
    ELSE LET e == IF a.exp < b.exp THEN a.exp ELSE b.exp
         IN  RoundRatio(BigAdd(ShiftLeft(a.sig, a.exp - e),
                               ShiftLeft(b.sig, b.exp - e)), e, 1)

\* a < b
FLess(a, b) ==
    IF IsZero(b) THEN FALSE
    ELSE IF IsZero(a) THEN TRUE
    ELSE IF a.exp # b.exp THEN a.exp < b.exp
    ELSE BigLess(a.sig, b.sig)

\* a / n for a finite a and a count n: 0 / 0 is NaN, and Infinity any other
\* a / 0.
FDivCount(a, n) ==
    IF n = 0 THEN (IF IsZero(a) THEN NaN ELSE PosInfinity)
    ELSE RoundRatio(a.sig, a.exp, n)

RECURSIVE MathMax(_)
\* Math.max(...xs): -Infinity when there is nothing to compare.
MathMax(xs) ==
    IF Len(xs) = 0 THEN NegInfinity
    ELSE LET rest == MathMax(Tail(xs))
         IN  IF ~IsFinite(rest) \/ FLess(rest, Head(xs)) THEN Head(xs) ELSE rest

RECURSIVE Digits(_)
\* The decimal digits of the big natural number n.
Digits(n) ==
    IF n = << >> THEN << >>
    ELSE LET qr == DivSmall(n, 10) IN Append(Digits(qr.quot), qr.rem)

DigitChar(d) == <<"0", "1", "2", "3", "4", "5", "6", "7", "8", "9">>[d + 1]

\* Number.prototype.toFixed(f): the integer n with n / 10^f nearest to x (the
\* larger of two), written with f digits after the point.
toFixed(x, f) ==
    IF x.kind = "NaN" THEN <<"N", "a", "N">>
    ELSE IF x.kind = "-Infinity"
      THEN <<"-", "I", "n", "f", "i", "n", "i", "t", "y">>
    ELSE IF x.kind = "Infinity"
      THEN <<"I", "n", "f", "i", "n", "i", "t", "y">>
    ELSE
      LET m == MulSmall(x.sig, Pow10(f))
          n == IF x.exp >= 0 THEN ShiftLeft(m, x.exp)
               ELSE ShiftRight(BigAdd(ShiftLeft(m, 1), ShiftLeft(<<1>>, -x.exp)),
                               1 - x.exp).quot
          ds  == Digits(n)
          all == IF Len(ds) < f + 1 THEN Zeros(f + 1 - Len(ds)) \o ds ELSE ds
          int == SubSeq(all, 1, Len(all) - f)
          frac == SubSeq(all, Len(all) - f + 1, Len(all))
      IN  [i \in 1..Len(int) |-> DigitChar(int[i])]
          \o (IF f > 0 THEN <<".">> ELSE << >>)
          \o [i \in 1..Len(frac) |-> DigitChar(frac[i])]

----------------------------------------------------------------------------
(* The series *)

Sample(t, x, v) == [time |-> t, position |-> x, velocity |-> v]

samplePerformanceData ==
    << Sample(Lit(0, 3),   Lit(863, 3), Lit(0, 0)),
       Sample(Lit(133, 3), Lit(816, 3), Lit(8857, 5)),
       Sample(Lit(267, 3), Lit(863, 3), Lit(177, 3)),
       Sample(Lit(400, 3), Lit(863, 3), Lit(8857, 5)) >>

\* The series of the model: at most MaxSamples samples, at increasing times
\* of Times, each with one of the Readings (a position and a velocity).
MaxSamples == 4

Times == <<Lit(0, 3), Lit(133, 3), Lit(267, 3), Lit(400, 3), Lit(533, 3)>>

Readings ==
    { <<samplePerformanceData[i].position, samplePerformanceData[i].velocity>> :
        i \in 1..Len(samplePerformanceData) }
    \cup { <<Lit(9, 1), Lit(4, 1)>> }

SeriesOfLen(n) ==
    { [i \in 1..n |-> Sample(Times[at[i]], r[i][1], r[i][2])] :
        at \in { f \in [1..n -> 1..Len(Times)] :
                   \A i \in 1..(n - 1) : f[i] < f[i + 1] },
        r \in [1..n -> Readings] }

SeriesSet == UNION { SeriesOfLen(n) : n \in 0..MaxSamples }

----------------------------------------------------------------------------
(* Dashboard *)

Roles == {"admin", "coach", "runner"}

videoRanges == <<"0-25", "25-50", "50-75", "75-100">>

Keys == {videoRanges[i] : i \in 1..Len(videoRanges)}

\* {} : the initial value of uploadedVideos
\* A tracker that starts with the first segment already flagged.
FirstSegmentFlagged == [k \in {"0-25"} |-> TRUE]

EmptyRecord == [k \in {} |-> TRUE]

\* uploadedVideos[range.key] || false
isUploaded(k) == IF k \in DOMAIN uploadedVideos THEN uploadedVideos[k] ELSE FALSE

\* prev => ({ [range]: true }): the other flags are not carried over
UpdaterReplace(prev, range) == [x \in {range} |-> TRUE]

\* prev => ({ ...prev, [range]: !prev[range] }): a second file clears the flag
UpdaterToggle(prev, range) ==
    [x \in (DOMAIN prev) \cup {range} |->
        IF x = range THEN ~(range \in DOMAIN prev /\ prev[range]) ELSE prev[x]]

\* prev => ({ ...prev, [range]: true })
Updater(prev, range) ==
    [x \in (DOMAIN prev) \cup {range} |-> IF x = range THEN TRUE ELSE prev[x]]

\* handleVideoUpload(range, file), and the render of the Dashboard after it
handleVideoUpload(range) ==
    /\ uploadedVideos' = Updater(uploadedVideos, range)
    /\ received' = received \cup {range}
    /\ seenUploaded' = seenUploaded \cup
           {k \in Keys : k \in DOMAIN uploadedVideos' /\ uploadedVideos'[k]}

NotRendered == [rendered |-> FALSE]

RECURSIVE Reduce(_, _, _)
\* xs.reduce((sum, d) => sum + d.velocity, init), from the sample at i on
Reduce(xs, i, sum) ==
    IF i > Len(xs) THEN sum ELSE Reduce(xs, i + 1, FAdd(sum, xs[i].velocity))

\* samplePerformanceData.map(d => d.velocity), and d.position
Velocities(xs) == [i \in 1..Len(xs) |-> xs[i].velocity]

Positions(xs) == [i \in 1..Len(xs) |-> xs[i].position]

maxVelocity(xs) == MathMax(Velocities(xs))

\* The mean over the samples but the first
avgVelocitySkipFirst(xs) == FDivCount(Reduce(xs, 2, Zero), Len(xs) - 1)

\* The sum over length - 1
avgVelocityOffByOne(xs) == FDivCount(Reduce(xs, 1, Zero), Len(xs) - 1)

avgVelocity(xs) == FDivCount(Reduce(xs, 1, Zero), Len(xs))

totalDistance(xs) == MathMax(Positions(xs))

\* The "Analysis Time" card shows a literal.
AnalysisTime == <<"0", ".", "4", "0", "0">>

\* The Dashboard's statistics of the series xs and the values of the four
\* StatsCards.  Nothing in the computation throws.
Stats(xs) ==
    [rendered |-> TRUE,
     threw |-> "nothing",
     maxVelocity |-> maxVelocity(xs),
     avgVelocity |-> avgVelocity(xs),
     totalDistance |-> totalDistance(xs),
     cards |-> [maxVelocity   |-> toFixed(maxVelocity(xs), 3),
                avgVelocity   |-> toFixed(avgVelocity(xs), 3),
                totalDistance |-> toFixed(totalDistance(xs), 1),
                analysisTime  |-> AnalysisTime]]

\* The render of the "Performance Analysis" statistics
RenderStats ==
    /\ stats' = Stats(data)
    /\ UNCHANGED <<uiVars, data, chart>>

----------------------------------------------------------------------------
(* PerformanceChart *)

ChartTypes == {"line", "bar"}

\* 'height' stands for the values the type of dataKey leaves out.
DataKeys == {"position", "velocity", "height"}

Undefined == [kind |-> "undefined"]

\* d[dataKey]
Field(d, dataKey) == IF dataKey \in DOMAIN d THEN d[dataKey] ELSE Undefined

\* The points a chart draws, last sample first
PointsReversed(xs, dataKey) ==
    [i \in 1..Len(xs) |-> [x |-> xs[Len(xs) + 1 - i].time,
                           y |-> Field(xs[Len(xs) + 1 - i], dataKey)]]

\* The points a chart draws: XAxis dataKey="time", Line or Bar dataKey={dataKey}
Points(xs, dataKey) ==
    [i \in 1..Len(xs) |-> [x |-> xs[i].time, y |-> Field(xs[i], dataKey)]]

PerformanceChart(xs, type, dataKey) ==
    [rendered |-> TRUE,
     threw  |-> "nothing",
     type   |-> type,
     dataKey |-> dataKey,
     kind   |-> IF type = "line" THEN "LineChart" ELSE "BarChart",
     stroke |-> IF dataKey = "velocity" THEN "#8B8AC4" ELSE "#A2AADB",
     unit   |-> IF dataKey = "velocity" THEN "m/s" ELSE "m",
     name   |-> IF dataKey = "velocity" THEN "Velocity" ELSE "Position",
     points |-> Points(xs, dataKey)]

\* The render of one chart
RenderChart(type, dataKey) ==
    /\ chart' = PerformanceChart(data, type, dataKey)
    /\ UNCHANGED <<uiVars, data, stats>>

----------------------------------------------------------------------------
(* VideoUploadCard, the card of segment k *)

\* file, whatever its type
AcceptsAny(files) == Len(files) > 0

\* file && file.type === 'video/mp4'
AcceptsMp4Only(files) ==
    /\ Len(files) > 0
    /\ files[1].type = VideoMp4

\* file && file.type.startsWith('video/'), where file is files[0]
Accepts(files) ==
    /\ Len(files) > 0
    /\ StartsWith(files[1].type, VideoPrefix)

\* What lastEvent records: the handler, its card, its files, whether it
\* called onUpload, and the isUploaded the card had been given.
Event(op, k, files, called) ==
    [op |-> op, key |-> k, files |-> files, onUpload |-> called,
     isUploaded |-> isUploaded(k)]

\* The file input exists only while the card is not uploaded.
handleFileChange(k, files) ==
    /\ isAuthenticated
    /\ ~isUploaded(k)
    /\ lastEvent' = Event("handleFileChange", k, files, Accepts(files))
    /\ IF Accepts(files)
         THEN handleVideoUpload(k)
         ELSE UNCHANGED <<uploadedVideos, received, seenUploaded>>
    /\ UNCHANGED <<isAuthenticated, userRole, isDragging, loginRole, data, stats, chart>>

handleDrop(k, files) ==
    /\ isAuthenticated
    /\ isDragging' = [isDragging EXCEPT ![k] = FALSE]
    /\ lastEvent' = Event("handleDrop", k, files, Accepts(files))
    /\ IF Accepts(files)
         THEN handleVideoUpload(k)
         ELSE UNCHANGED <<uploadedVideos, received, seenUploaded>>
    /\ UNCHANGED <<isAuthenticated, userRole, loginRole, data, stats, chart>>

handleDragOver(k) ==
    /\ isAuthenticated
    /\ isDragging' = [isDragging EXCEPT ![k] = TRUE]
    /\ lastEvent' = Event("handleDragOver", k, << >>, FALSE)
    /\ UNCHANGED <<isAuthenticated, userRole, uploadedVideos, received, seenUploaded,
                   loginRole, data, stats, chart>>

handleDragLeave(k) ==
    /\ isAuthenticated
    /\ isDragging' = [isDragging EXCEPT ![k] = FALSE]
    /\ lastEvent' = Event("handleDragLeave", k, << >>, FALSE)
    /\ UNCHANGED <<isAuthenticated, userRole, uploadedVideos, received, seenUploaded,
                   loginRole, data, stats, chart>>

----------------------------------------------------------------------------
(* Index *)

NoKey == "none"
NoRole == "none"

\* The LoginForm is rendered while not authenticated.  The render after
\* handleLogin mounts a Dashboard, whose state starts from its useState values.
handleLogin(role) ==
    /\ ~isAuthenticated
    /\ userRole' = role
    /\ isAuthenticated' = TRUE
    /\ uploadedVideos' = EmptyRecord
    /\ isDragging' = [k \in Keys |-> FALSE]
    /\ received' = {}
    /\ lastEvent' = [op |-> "handleLogin", key |-> NoKey, files |-> << >>,
                     onUpload |-> FALSE, isUploaded |-> FALSE, role |-> role]
    /\ loginRole' = role
    /\ UNCHANGED <<seenUploaded, data, stats, chart>>

\* What Index returns: the LoginForm, or the Dashboard (with its upload cards,
\* statistics and charts) given the current role.
Index == IF ~isAuthenticated THEN "LoginForm" ELSE "Dashboard"

\* A "System Analytics" section shown to every role but 'runner'.
SystemAnalyticsForStaff == Index = "Dashboard" /\ userRole # "runner"

\* The "System Analytics" section of the Dashboard's Data Export card.
SystemAnalytics == Index = "Dashboard" /\ userRole = "admin"

\* A logout that leaves the role as it was.
handleLogoutKeepsRole ==
    /\ isAuthenticated
    /\ isAuthenticated' = FALSE
    /\ uploadedVideos' = EmptyRecord
    /\ isDragging' = [k \in Keys |-> FALSE]
    /\ received' = {}
    /\ lastEvent' = Event("handleLogout", NoKey, << >>, FALSE)
    /\ UNCHANGED <<userRole, seenUploaded, loginRole, data, stats, chart>>

\* The Header's Logout button is rendered while authenticated.  The render
\* after handleLogout unmounts the Dashboard and its cards: their state is gone.
handleLogout ==
    /\ isAuthenticated
    /\ isAuthenticated' = FALSE
    /\ userRole' = "runner"
    /\ uploadedVideos' = EmptyRecord
    /\ isDragging' = [k \in Keys |-> FALSE]
    /\ received' = {}
    /\ lastEvent' = Event("handleLogout", NoKey, << >>, FALSE)
    /\ UNCHANGED <<seenUploaded, loginRole, data, stats, chart>>

----------------------------------------------------------------------------

UiInit ==
    /\ isAuthenticated = FALSE
    /\ userRole = "runner"
    /\ uploadedVideos = EmptyRecord
    /\ isDragging = [k \in Keys |-> FALSE]
    /\ lastEvent = Event("init", NoKey, << >>, FALSE)
    /\ received = {}
    /\ seenUploaded = {}
    /\ loginRole = NoRole

\* The application: the user's operations on the pages, with the series the
\* Dashboard holds.
Init ==
    /\ UiInit
    /\ data = samplePerformanceData
    /\ stats = NotRendered
    /\ chart = NotRendered

Next ==
    \/ \E role \in Roles : handleLogin(role)
    \/ handleLogout
    \/ \E k \in Keys, files \in FileLists : handleFileChange(k, files)
    \/ \E k \in Keys, files \in FileLists : handleDrop(k, files)
    \/ \E k \in Keys : handleDragOver(k)
    \/ \E k \in Keys : handleDragLeave(k)

Spec == Init /\ [][Next]_vars

\* The statistics and the charts as functions of the series: any series of
\* SeriesSet, any chart type, any data key.
MetricsInit ==
    /\ UiInit
    /\ data \in SeriesSet
    /\ stats = NotRendered
    /\ chart = NotRendered

MetricsNext ==
    \/ RenderStats
    \/ \E type \in ChartTypes, dataKey \in DataKeys : RenderChart(type, dataKey)

MetricsSpec == MetricsInit /\ [][MetricsNext]_vars

----------------------------------------------------------------------------
(* The upload flags *)

UploadHandlers == {"handleFileChange", "handleDrop"}

\* The files a claim calls video files, type by type: the first file's MIME
\* type is 'video/mp4' or the bare 'video/'.
IsVideo(files) == Len(files) > 0 /\ files[1].type \in {VideoMp4, VideoBare}

\* C1, as stated: once the flag of a segment key has been true, the
\* Dashboard never shows it false again, whatever the operations in between
\* (logins and logouts included).
C1_NeverObservedFalseAgain ==
    isAuthenticated => \A k \in seenUploaded : isUploaded(k)

\* C1, amended: within one Dashboard session (no step takes the page from
\* or to the login form) no operation moves a flag from true to false.
C1_MonotoneWithinSession ==
    [][(isAuthenticated /\ isAuthenticated')
         => \A k \in Keys : isUploaded(k) => isUploaded(k)']_vars

\* A second file was dropped on a card already uploaded, and the flags of
\* two segments are true.
C1_Witness ==
    /\ isAuthenticated
    /\ lastEvent.op = "handleDrop" /\ lastEvent.onUpload /\ lastEvent.isUploaded
    /\ isUploaded(lastEvent.key)
    /\ \E k \in Keys \ {lastEvent.key} : isUploaded(k)

\* C2: a handler that received a video file for the card of key k leaves the
\* flag of k true and the flags of the other three keys as they were.
C2_VideoSetsOnlyItsFlag ==
    [][(lastEvent'.op \in UploadHandlers /\ IsVideo(lastEvent'.files))
         => \A k \in Keys :
              isUploaded(k)' = (k = lastEvent'.key \/ isUploaded(k))]_vars

\* A 'video/' file (the bare prefix) was selected for "25-50" while "50-75"
\* was uploaded and "0-25" was not.
C2_Witness ==
    /\ lastEvent.op = "handleFileChange" /\ lastEvent.key = "25-50"
    /\ lastEvent.files = <<File(VideoBare)>>
    /\ isUploaded("25-50") /\ isUploaded("50-75")
    /\ ~isUploaded("0-25") /\ ~isUploaded("75-100")

\* C3: a handler that received no file, or a file whose type does not start
\* with 'video/', does not call onUpload and leaves every flag as it was.
C3_NonVideoIsIgnored ==
    [][(lastEvent'.op \in UploadHandlers /\ ~IsVideo(lastEvent'.files))
         => /\ ~lastEvent'.onUpload
            /\ uploadedVideos' = uploadedVideos
            /\ received' = received]_vars

\* A text/plain file was dropped on the card of a segment not uploaded, with
\* another segment uploaded: the card still asks for a video.
C3_Witness ==
    /\ lastEvent.op = "handleDrop" /\ lastEvent.files = <<File(TextPlain)>>
    /\ ~lastEvent.onUpload
    /\ ~isUploaded(lastEvent.key)
    /\ \E k \in Keys : isUploaded(k)

\* C6: whatever the order of the upload events, once they are processed
\* every segment that received a video file has its flag true.
C6_NoLostUpload ==
    \A k \in received : isUploaded(k)

\* All four segments received a file, the last of them a second time.
C6_Witness ==
    /\ received = Keys
    /\ lastEvent.op = "handleDrop" /\ lastEvent.onUpload /\ lastEvent.isUploaded

----------------------------------------------------------------------------
(* The statistics *)

NonFinite == {NaN, PosInfinity, NegInfinity}

\* C4: the statistics of a series with no samples fail with
\* EmptySeriesError, and none of the three metrics comes out as NaN,
\* Infinity or -Infinity.
C4_EmptySeriesFails ==
    (stats.rendered /\ data = << >>)
      => /\ stats.threw = "EmptySeriesError"
         /\ stats.maxVelocity \notin NonFinite
         /\ stats.avgVelocity \notin NonFinite
         /\ stats.totalDistance \notin NonFinite

\* a - b for a >= b, the subtraction the duration is specified by
FSub(a, b) ==
    IF IsZero(b) THEN a
    ELSE LET e == IF a.exp < b.exp THEN a.exp ELSE b.exp
         IN  RoundRatio(BigSub(ShiftLeft(a.sig, a.exp - e),
                               ShiftLeft(b.sig, b.exp - e)), e, 1)

\* The statistics of the series of the specification's example.
ExampleRendered == stats.rendered /\ data = samplePerformanceData

ExampleButAverage ==
    /\ stats.maxVelocity = Lit(177, 3)
    /\ stats.cards.maxVelocity = <<"0", ".", "1", "7", "7">>
    /\ stats.cards.avgVelocity = <<"0", ".", "0", "8", "9">>
    /\ stats.totalDistance = Lit(863, 3)
    /\ stats.cards.analysisTime = <<"0", ".", "4", "0", "0">>
    /\ toFixed(FSub(data[Len(data)].time, data[1].time), 3)
         = <<"0", ".", "4", "0", "0">>

\* C7, as stated: for the four samples of the example maxVelocity is 0.177,
\* avgVelocity is 0.08879 to five decimals and 0.089 to three, totalDistance
\* is 0.863 and the duration is 0.400.
C7_ExampleAsStated ==
    ExampleRendered
      => /\ ExampleButAverage
         /\ toFixed(stats.avgVelocity, 5) = <<"0", ".", "0", "8", "8", "7", "9">>

\* C7, amended: the same, with avgVelocity 0.08853 to five decimals (the
\* mean of all four velocities, 0.35414 / 4 = 0.088535 less a rounding error).
C7_Example ==
    ExampleRendered
      => /\ ExampleButAverage
         /\ toFixed(stats.avgVelocity, 5) = <<"0", ".", "0", "8", "8", "5", "3">>
         /\ stats.avgVelocity =
              FDivCount(FAdd(FAdd(FAdd(Lit(0, 0), Lit(8857, 5)), Lit(177, 3)),
                             Lit(8857, 5)), 4)

C7_Witness == ExampleRendered /\ stats.cards.avgVelocity = <<"0", ".", "0", "8", "9">>

WithinUlps(a, m, n) ==
    IF ~IsFinite(a) \/ ~IsFinite(m) THEN FALSE
    ELSE IF IsZero(a) THEN TRUE
    ELSE IF IsZero(m) THEN FALSE
    ELSE LET e == IF a.exp < m.exp THEN a.exp ELSE m.exp
         IN  ~BigLess(ShiftLeft(BigAdd(m.sig, Limbs(n)), m.exp - e),
                      ShiftLeft(a.sig, a.exp - e))

C9_DurationFollowsSeries ==
    (stats.rendered /\ Len(data) > 0)
      => stats.cards.analysisTime
           = toFixed(FSub(data[Len(data)].time, data[1].time), 3)

----------------------------------------------------------------------------
(* The charts *)

\* C5: a chart of a data key other than 'position' and 'velocity' fails with
\* InvalidFieldError, and is not labelled as a chart of position or velocity.
C5_UnknownFieldFails ==
    (chart.rendered /\ chart.dataKey \notin {"position", "velocity"})
      => /\ chart.threw = "InvalidFieldError"
         /\ chart.name \notin {"Position", "Velocity"}

\* C10: a chart of 'position' or 'velocity', line or bar, has one point per
\* sample, in the order of the series: x is the sample's time, increasing
\* from point to point, and y is the sample's position or velocity.
C10_OnePointPerSample ==
    (chart.rendered /\ chart.dataKey \in {"position", "velocity"})
      => /\ Len(chart.points) = Len(data)
         /\ \A i \in 1..Len(data) :
              /\ chart.points[i].x = data[i].time
              /\ chart.points[i].y = IF chart.dataKey = "position"
                                       THEN data[i].position
                                       ELSE data[i].velocity
         /\ \A i \in 1..(Len(chart.points) - 1) :
              FLess(chart.points[i].x, chart.points[i + 1].x)

\* A bar chart of the position of four samples whose positions differ from
\* their velocities.
C10_Witness ==
    /\ chart.rendered /\ chart.type = "bar" /\ chart.dataKey = "position"
    /\ Len(chart.points) = 4
    /\ \A i \in 1..4 : chart.points[i].y # data[i].velocity

----------------------------------------------------------------------------
(* C11 *)

SegmentKeys == {"0-25", "25-50", "50-75", "75-100"}

FlaggedKeys == {k \in DOMAIN uploadedVideos : uploadedVideos[k]}

\* C11: in the initial state, and in the state a login leaves (the start of a
\* dashboard session), each of the four segment keys "0-25", "25-50", "50-75",
\* "75-100" reads as not received; the keys flagged now, and the keys ever
\* flagged, are among these four.
C11_SessionStartsUnflagged ==
    /\ lastEvent.op \in {"init", "handleLogin"} =>
           \A k \in SegmentKeys : isUploaded(k) = FALSE
    /\ FlaggedKeys \subseteq SegmentKeys
    /\ seenUploaded \subseteq SegmentKeys

\* A session starts after an earlier session had all four segments flagged.
C11_Witness ==
    /\ lastEvent.op = "handleLogin"
    /\ seenUploaded = SegmentKeys
    /\ \A k \in SegmentKeys : ~isUploaded(k)

----------------------------------------------------------------------------
(* C12 *)

\* C12: in every reachable state the Dashboard is what Index shows exactly
\* when isAuthenticated is true, which is exactly when a login or an operation
\* of the Dashboard ran last; while authenticated, userRole is the role passed
\* to the most recent login; in the state a logout leaves, isAuthenticated is
\* false and userRole is 'runner', whatever the role of the session was.
C12_DashboardIffAuthenticated ==
    /\ (Index = "Dashboard") <=> (isAuthenticated = TRUE)
    /\ (Index = "Dashboard") <=> (lastEvent.op \notin {"init", "handleLogout"})
    /\ isAuthenticated => loginRole \in Roles /\ userRole = loginRole
    /\ lastEvent.op = "handleLogout" => ~isAuthenticated /\ userRole = "runner"

\* A logout has ended an admin session.
C12_Witness ==
    /\ lastEvent.op = "handleLogout"
    /\ loginRole = "admin"
    /\ userRole = "runner"
    /\ Index = "LoginForm"

----------------------------------------------------------------------------
(* C13 *)

\* C13: the "System Analytics" section is shown only in states where the user
\* is authenticated and the current role is 'admin', the role the session was
\* logged in with; a session logged in as coach or runner never shows it,
\* whatever logins and logouts came before.
C13_SystemAnalyticsAdminOnly ==
    /\ SystemAnalytics =>
           isAuthenticated /\ userRole = "admin" /\ loginRole = "admin"
    /\ isAuthenticated /\ loginRole \in {"coach", "runner"} => ~SystemAnalytics
    /\ ~isAuthenticated => ~SystemAnalytics

\* A coach session that follows an earlier session (one whose uploads are
\* gone) and does not show the section.
C13_Witness ==
    /\ isAuthenticated
    /\ loginRole = "coach"
    /\ seenUploaded # {}
    /\ \A k \in Keys : ~isUploaded(k)
    /\ ~SystemAnalytics

====
